---- MODULE Spec2Model ----
(***************************************************************************)
(* Northwind BI project: the two ETL entry points                          *)
(*   scripts/etl_northwind.py            build_star_schema()               *)
(*   scripts/etl_northwind_sqlserver.py  build_etl()                       *)
(* modelled as one sequential state machine.  A data frame is a record     *)
(* [isNone, columns, rows]; a row is a record from column names to cells.  *)
(* A cell is a record [t, n]:                                              *)
(*   t = "null"    NaN / None / NaT                                        *)
(*   t = "int"     the number n                                            *)
(*   t = "numstr"  a text cell whose characters are the numeral n          *)
(*   t = "str"     a text cell that is no numeral (text number n)          *)
(*   t = "padstr"  the text of "str" n with surrounding blanks             *)
(* Every source row carries a field "rest" that stands for all the columns *)
(* of that row which no operation of the pipeline reads or writes; it is   *)
(* different for every source row.                                         *)
(***************************************************************************)
EXTENDS Integers, Sequences, FiniteSets, TLC

VARIABLES dash, error, written, args, result, entry, pc, excelFiles,
          sqlTables,
          orders, order_det, customers, products, employees, shippers,
          categories, dim_time, dim_customer, dim_employee, dim_shipper,
          dim_categories, dim_product, fact_sales, processed

vars == <<dash, error, written, args, result, entry, pc, excelFiles,
         sqlTables,
         orders, order_det, customers,
          products, employees, shippers, categories, dim_time, dim_customer,
          dim_employee, dim_shipper, dim_categories, dim_product, fact_sales,
          processed>>

-----------------------------------------------------------------------------
(* Bounds of the model and constants of the program.                       *)

MaxRows == 2

(* The number of export runs the dashboard is followed through.            *)
MaxExports == 2

EXCEL_ORDER_OFFSET == 200000

Tables == {"Orders", "Order Details", "Customers", "Products", "Employees",
           "Shippers", "Categories"}

-----------------------------------------------------------------------------
(* Cells.                                                                  *)

Null == [t |-> "null", n |-> 0]
IntV(k) == [t |-> "int", n |-> k]
NumStr(k) == [t |-> "numstr", n |-> k]
Str(k) == [t |-> "str", n |-> k]
PadStr(k) == [t |-> "padstr", n |-> k]

IsNull(v) == v.t = "null"

(* pd.to_numeric(col, errors="coerce"): numbers stay, numerals are parsed, *)
(* any other text and any missing cell become NaN.                         *)
ToNumeric(v) == IF v.t \in {"int", "numstr"} THEN IntV(v.n) ELSE Null

(* col.astype(str).str.strip(): a number is printed, a missing cell prints *)
(* as the text "nan" (text number 0), blanks around a text are removed.    *)
NanText == Str(0)
AsStrStrip(v) ==
    CASE v.t = "int" -> NumStr(v.n)
      [] v.t = "null" -> NanText
      [] v.t = "padstr" -> Str(v.n)
      [] OTHER -> v

-----------------------------------------------------------------------------
(* Data frames.                                                            *)

None == [isNone |-> TRUE, columns |-> {}, rows |-> << >>]
DataFrame(cols, rws) == [isNone |-> FALSE, columns |-> cols, rows |-> rws]

SetCol(r, c, v) == [k \in DOMAIN r \cup {c} |-> IF k = c THEN v ELSE r[k]]
Cell(r, c) == IF c \in DOMAIN r THEN r[c] ELSE Null
Key(r, subset) == [c \in subset |-> Cell(r, c)]

MapRows(rws, f(_)) == [i \in 1..Len(rws) |-> f(rws[i])]

(* df.dropna(subset=subset): rows with a missing cell in any column of     *)
(* subset are removed.                                                     *)
DropNa(rws, subset) ==
    SelectSeq(rws, LAMBDA r : \A c \in subset : ~IsNull(Cell(r, c)))

(* df.drop_duplicates(subset=subset, keep="first"): a row is removed when  *)
(* an earlier row has the same cells in every column of subset (two        *)
(* missing cells count as the same).                                       *)
DropDuplicatesLast(rws, subset) ==
    LET keep(i) == \A j \in (i+1)..Len(rws) :
                       Key(rws[j], subset) # Key(rws[i], subset)
        F[i \in 0..Len(rws)] ==
            IF i = 0 THEN << >>
            ELSE IF keep(i) THEN Append(F[i-1], rws[i]) ELSE F[i-1]
    IN F[Len(rws)]
DropDuplicates(rws, subset) ==
    LET keep(i) == \A j \in 1..(i-1) :
                       Key(rws[j], subset) # Key(rws[i], subset)
        F[i \in 0..Len(rws)] ==
            IF i = 0 THEN << >>
            ELSE IF keep(i) THEN Append(F[i-1], rws[i]) ELSE F[i-1]
    IN F[Len(rws)]

(* pd.concat([a, b], ignore_index=True)                                    *)
Concat(a, b) == DataFrame(a.columns \cup b.columns, a.rows \o b.rows)

-----------------------------------------------------------------------------
(* Source reconciler.                                                      *)

(* The key columns the entry points pass for each table.                   *)
KeyColumns(t) ==
    CASE t = "Orders" -> {"OrderID"}
      [] t = "Order Details" -> {"OrderID", "ProductID"}
      [] t = "Customers" -> {"CustomerID"}
      [] t = "Products" -> {"ProductID"}
      [] t = "Employees" -> {"EmployeeID"}
      [] t = "Shippers" -> {"ShipperID"}
      [] t = "Categories" -> {"CategoryID"}

(* The characters of the table names the entry points pass, and of other   *)
(* spellings of them.                                                      *)
Chars(name) ==
    CASE name = "Orders" ->
            <<"O", "r", "d", "e", "r", "s">>
      [] name = "Order Details" ->
            <<"O", "r", "d", "e", "r", " ", "D", "e", "t", "a", "i",
            "l", "s">>
      [] name = "Customers" ->
            <<"C", "u", "s", "t", "o", "m", "e", "r", "s">>
      [] name = "Products" ->
            <<"P", "r", "o", "d", "u", "c", "t", "s">>
      [] name = "Employees" ->
            <<"E", "m", "p", "l", "o", "y", "e", "e", "s">>
      [] name = "Shippers" ->
            <<"S", "h", "i", "p", "p", "e", "r", "s">>
      [] name = "Categories" ->
            <<"C", "a", "t", "e", "g", "o", "r", "i", "e", "s">>
      [] name = "ORDERS" ->
            <<"O", "R", "D", "E", "R", "S">>
      [] name = " orders " ->
            <<" ", "o", "r", "d", "e", "r", "s", " ">>
      [] name = "order_details" ->
            <<"o", "r", "d", "e", "r", "_", "d", "e", "t", "a", "i",
            "l", "s">>

UpperCase == <<"A", "B", "C", "D", "E", "F", "G", "H", "I", "J", "K", "L",
               "M", "N", "O", "P", "Q", "R", "S", "T", "U", "V", "W", "X",
               "Y", "Z">>
LowerCase == <<"a", "b", "c", "d", "e", "f", "g", "h", "i", "j", "k", "l",
               "m", "n", "o", "p", "q", "r", "s", "t", "u", "v", "w", "x",
               "y", "z">>

(* str.lower()                                                             *)
Lower(cs) ==
    [i \in 1..Len(cs) |->
        IF \E k \in 1..Len(UpperCase) : UpperCase[k] = cs[i]
        THEN LowerCase[CHOOSE k \in 1..Len(UpperCase) : UpperCase[k] = cs[i]]
        ELSE cs[i]]

(* str.replace("_", " ")                                                   *)
ReplaceUnderscores(cs) ==
    [i \in 1..Len(cs) |-> IF cs[i] = "_" THEN " " ELSE cs[i]]

(* str.strip(): the blanks at both ends are removed, inner ones stay.      *)
RECURSIVE Strip(_)
Strip(cs) ==
    IF cs = << >> THEN cs
    ELSE IF Head(cs) = " " THEN Strip(Tail(cs))
    ELSE IF cs[Len(cs)] = " " THEN Strip(SubSeq(cs, 1, Len(cs) - 1))
    ELSE cs

(* A faulty variant: the name is compared as it is spelt.                  *)
OrderBearingExact(table) == table \in {"orders", "order details"}

(* table.lower().replace("_", " ").strip() in {"orders", "order details"}  *)
OrderBearing(table) ==
    Strip(ReplaceUnderscores(Lower(Chars(table))))
        \in {<<"o", "r", "d", "e", "r", "s">>,
             <<"o", "r", "d", "e", "r", " ", "d", "e", "t", "a", "i", "l",
               "s">>}

(* _adjust_excel_ids raises KeyError                                       *)
AdjustRaises(table, df) ==
    OrderBearing(table) /\ "OrderID" \notin df.columns

ShiftNone(k) == k
Shift(k) == k + EXCEL_ORDER_OFFSET

AdjustExcelIdsKeepAll(table, df) ==
    IF OrderBearing(table)
    THEN DataFrame(df.columns,
           MapRows(df.rows,
             LAMBDA r : IF IsNull(ToNumeric(r.OrderID)) THEN r
                        ELSE SetCol(r, "OrderID",
                                    IntV(Shift(ToNumeric(r.OrderID).n)))))
    ELSE df
AdjustExcelIds(table, df) ==
    IF OrderBearing(table)
    THEN DataFrame(df.columns,
           MapRows(DropNa(MapRows(df.rows,
                            LAMBDA r : SetCol(r, "OrderID",
                                              ToNumeric(r.OrderID))),
                          {"OrderID"}),
             LAMBDA r : SetCol(r, "OrderID", IntV(Shift(r.OrderID.n)))))
    ELSE df

Raised == [raised |-> TRUE, df |-> None]
Return(df) == [raised |-> FALSE, df |-> df]

(* A faulty variant: rows with a missing key cell are kept.                *)
DedupeKeepMissing(df, subset) ==
    DataFrame(df.columns, DropDuplicates(df.rows, subset))

(* Lines 111-113: drop_duplicates first, dropna second.                    *)
Dedupe(df, subset) ==
    DataFrame(df.columns, DropNa(DropDuplicates(df.rows, subset), subset))

(* etl_northwind.py merge_sources(table, key, dedupe), with the results of *)
(* load_excel(table) and load_sql(table) as df_excel and df_sql.           *)
merge_sources(table, subset, dedupe, df_excel, df_sql) ==
    IF ~df_excel.isNone /\ AdjustRaises(table, df_excel) THEN Raised
    ELSE LET ex == IF df_excel.isNone THEN None
                   ELSE AdjustExcelIds(table, df_excel)
             df == IF df_sql.isNone /\ ex.isNone THEN None
                   ELSE IF df_sql.isNone THEN ex
                   ELSE IF ex.isNone THEN df_sql
                   ELSE Concat(ex, df_sql)
         IN IF df.isNone THEN Return(None)
            ELSE IF dedupe THEN Return(Dedupe(df, subset))
            ELSE Return(df)

(* etl_northwind_sqlserver.py merge_with_excel(sql_df, table, key_columns, *)
(* dedupe), with the result of load_excel_table(table) as df_excel.        *)
merge_with_excel(sql_df, table, subset, dedupe, df_excel) ==
    IF ~df_excel.isNone /\ AdjustRaises(table, df_excel) THEN Raised
    ELSE LET ex == IF df_excel.isNone THEN None
                   ELSE AdjustExcelIds(table, df_excel)
             combined == IF ex.isNone /\ sql_df.isNone THEN None
                         ELSE IF sql_df.isNone THEN ex
                         ELSE IF ex.isNone THEN sql_df
                         ELSE Concat(ex, sql_df)
         IN IF ~combined.isNone /\ dedupe
            THEN Return(Dedupe(combined, subset))
            ELSE Return(combined)

-----------------------------------------------------------------------------
(* Dates.  An OrderDate cell is Null, a text that is no date (t = "str"),  *)
(* or a timestamp [t |-> "ts", y, m, d, h] (h: the hour of the day).       *)

Timestamp(y, m, d, h) == [t |-> "ts", y |-> y, m |-> m, d |-> d, h |-> h]

(* pd.Timestamp("1996-01-01")                                              *)
DefaultDate == Timestamp(1996, 1, 1, 0)

(* pd.to_datetime(col, errors="coerce")                                    *)
ToDatetimeCoerce(v) == IF v.t = "ts" THEN v ELSE Null
(* pd.to_datetime(col) raises on a text that is no date                    *)
ToDatetimeRaises(rws) == \E i \in 1..Len(rws) : rws[i].OrderDate.t = "str"

(* col.dt.strftime("%Y%m%d").astype(int)                                   *)
TimeKeyOf(v) == IntV(v.y * 10000 + v.m * 100 + v.d)
(* astype(int) raises when strftime left NaN for a NaT                     *)
TimeKeyRaises(rws) == \E i \in 1..Len(rws) : IsNull(rws[i].OrderDate)

FillNa(v, dflt) == IF IsNull(v) THEN dflt ELSE v

(* df.sort_values("date"), on rows whose dates are all different           *)
DateOrd(v) == ((v.y * 100 + v.m) * 100 + v.d) * 100 + v.h
RECURSIVE SortByDate(_)
SortByDate(rws) ==
    IF rws = << >> THEN << >>
    ELSE LET i == CHOOSE i \in 1..Len(rws) :
                    \A j \in 1..Len(rws) :
                        DateOrd(rws[i].date) <= DateOrd(rws[j].date)
         IN <<rws[i]>> \o
            SortByDate(SubSeq(rws, 1, i-1) \o SubSeq(rws, i+1, Len(rws)))

-----------------------------------------------------------------------------
(* Joins and aggregation.                                                  *)

RECURSIVE Flatten(_)
Flatten(ss) == IF ss = << >> THEN << >> ELSE Head(ss) \o Flatten(Tail(ss))

Extend(r, cols, src) ==
    [k \in DOMAIN r \cup cols |->
        IF k \in cols THEN Cell(src, k) ELSE r[k]]

(* left.merge(right[[on] + cols], on=on, how="left"): every left row once  *)
(* per right row with the same cell in column on (two missing cells count  *)
(* as the same), or once with missing cells when there is none.            *)
LeftJoin(left, right, on, cols) ==
    Flatten([i \in 1..Len(left) |->
        LET hits == SelectSeq(right, LAMBDA q : Cell(q, on) = left[i][on])
        IN IF hits = << >> THEN <<Extend(left[i], cols, [on |-> Null])>>
           ELSE [j \in 1..Len(hits) |-> Extend(left[i], cols, hits[j])]])

RECURSIVE SumCol(_, _)
SumCol(rws, c) ==
    IF rws = << >> THEN 0 ELSE Head(rws)[c].n + SumCol(Tail(rws), c)

RECURSIVE Gcd(_, _)
Gcd(a, b) == IF b = 0 THEN a ELSE Gcd(b, a % b)

(* The mean sum/count of integer cells, as a number when it is whole and   *)
(* as a reduced fraction [t |-> "ratio", n, d] otherwise.                  *)
Mean(sum, count) ==
    IF sum % count = 0 THEN IntV(sum \div count)
    ELSE LET g == Gcd(IF sum < 0 THEN -sum ELSE sum, count)
         IN [t |-> "ratio", n |-> sum \div g, d |-> count \div g]

(* A faulty variant: the line total ignores the discount.                   *)
NormalizeDetailNoDiscount(r) ==
    LET disc == FillNa(ToNumeric(r.Discount), IntV(0))
        qty == FillNa(ToNumeric(r.Quantity), IntV(0))
        price == FillNa(ToNumeric(r.UnitPrice), IntV(0))
    IN [k \in DOMAIN r \cup {"LineTotal", "DetailCount"} |->
          CASE k = "Discount" -> disc
            [] k = "Quantity" -> qty
            [] k = "UnitPrice" -> price
            [] k = "LineTotal" -> IntV(price.n * qty.n * 100)
            [] k = "DetailCount" -> IntV(1)
            [] OTHER -> r[k]]

(* Lines 247-251: Discount, Quantity and UnitPrice coerced to numbers with *)
(* NaN replaced by 0, LineTotal and DetailCount added.  Discount cells are *)
(* in hundredths (5 is 0.05), and so is LineTotal.                         *)
NormalizeDetail(r) ==
    LET disc == FillNa(ToNumeric(r.Discount), IntV(0))
        qty == FillNa(ToNumeric(r.Quantity), IntV(0))
        price == FillNa(ToNumeric(r.UnitPrice), IntV(0))
    IN [k \in DOMAIN r \cup {"LineTotal", "DetailCount"} |->
          CASE k = "Discount" -> disc
            [] k = "Quantity" -> qty
            [] k = "UnitPrice" -> price
            [] k = "LineTotal" -> IntV(price.n * qty.n * (100 - disc.n))
            [] k = "DetailCount" -> IntV(1)
            [] OTHER -> r[k]]

(* A faulty summary: one row per detail row, not per OrderID.              *)
DetailSummaryPerRow(details) ==
    LET keyed == DropNa(details, {"OrderID"})
    IN [i \in 1..Len(keyed) |->
          [OrderID |-> keyed[i].OrderID,
           DetailCount |-> keyed[i].DetailCount,
           TotalQuantity |-> keyed[i].Quantity,
           AverageDiscount |-> keyed[i].Discount,
           TotalLineTotal |-> keyed[i].LineTotal]]

(* order_det.groupby("OrderID", as_index=False).agg(...): one row for each *)
(* OrderID that is not missing, in the order of first appearance here (the *)
(* join below does not depend on the order).                               *)
DetailSummary(details) ==
    LET keyed == DropDuplicates(DropNa(details, {"OrderID"}), {"OrderID"})
    IN [i \in 1..Len(keyed) |->
          LET grp == SelectSeq(details,
                               LAMBDA r : r.OrderID = keyed[i].OrderID)
          IN [OrderID |-> keyed[i].OrderID,
              DetailCount |-> IntV(SumCol(grp, "DetailCount")),
              TotalQuantity |-> IntV(SumCol(grp, "Quantity")),
              AverageDiscount |-> Mean(SumCol(grp, "Discount"), Len(grp)),
              TotalLineTotal |-> IntV(SumCol(grp, "LineTotal"))]]

Measures == {"DetailCount", "TotalQuantity", "AverageDiscount",
             "TotalLineTotal"}

-----------------------------------------------------------------------------
(* Dimension builders.                                                     *)

Rename(r, from, to) ==
    [k \in (DOMAIN r \ {from}) \cup {to} |-> IF k = to THEN r[from] ELSE r[k]]

Project(r, cols) == [k \in cols |-> Cell(r, k)]

(* etl_northwind.py lines 154-160: one row per order, then                 *)
(* drop_duplicates() over all five columns.                                *)
TimeRow(v) ==
    [TimeKey |-> TimeKeyOf(v), date |-> v, year |-> IntV(v.y),
     month |-> IntV(v.m), day |-> IntV(v.d)]
(* A faulty variant: duplicates dropped on year and month only.            *)
DimTimeStarByMonth(rws) ==
    LET all == [i \in 1..Len(rws) |-> TimeRow(rws[i].OrderDate)]
    IN DropDuplicates(all, {"year", "month"})
DimTimeStar(rws) ==
    LET all == [i \in 1..Len(rws) |-> TimeRow(rws[i].OrderDate)]
    IN DropDuplicates(all, {"TimeKey", "date", "year", "month", "day"})

(* etl_northwind_sqlserver.py lines 103-119: the distinct OrderDate values *)
(* that are not missing, sorted.                                           *)
DimTimeEtl(rws) ==
    LET dates == DropDuplicates(
                     DropNa([i \in 1..Len(rws) |->
                                [date |-> rws[i].OrderDate]], {"date"}),
                     {"date"})
    IN SortByDate([i \in 1..Len(dates) |->
          [TimeKey |-> TimeKeyOf(dates[i].date), date |-> dates[i].date,
           year |-> IntV(dates[i].date.y), month |-> IntV(dates[i].date.m),
           day |-> IntV(dates[i].date.d),
           year_month |-> IntV(dates[i].date.y * 100 + dates[i].date.m)]])

(* Projection, rename of the identifier, dropna and drop_duplicates on it. *)
KeyedDimension(rws, id, key, cols) ==
    DropDuplicates(
        DropNa(MapRows(rws, LAMBDA r : Rename(Project(r, cols), id, key)),
               {key}),
        {key})

DimCustomer(rws) ==
    KeyedDimension(rws, "CustomerID", "CustomerKey", {"CustomerID", "rest"})

(* employees["FirstName"] + " " + employees["LastName"]: missing when      *)
(* either part is missing.                                                 *)
FullName(r) ==
    IF IsNull(r.FirstName) \/ IsNull(r.LastName) THEN Null
    ELSE [t |-> "name", first |-> r.FirstName.n, last |-> r.LastName.n]
WithFullName(rws) ==
    MapRows(rws, LAMBDA r : SetCol(r, "EmployeeFullName", FullName(r)))
DimEmployee(rws) ==
    KeyedDimension(rws, "EmployeeID", "EmployeeKey",
        {"EmployeeID", "EmployeeFullName", "FirstName", "LastName", "rest"})

DimShipper(rws) ==
    DropDuplicates(
        DropNa(MapRows(rws,
                 LAMBDA r : [ShipperKey |-> ToNumeric(r.ShipperID),
                             rest |-> r.rest]),
               {"ShipperKey"}),
        {"ShipperKey"})

DimCategories(rws) ==
    DropDuplicates(
        DropNa(MapRows(rws,
                 LAMBDA r : Project(r, {"CategoryID", "CategoryName"})),
               {"CategoryID"}),
        {"CategoryID"})

UnknownCategory == Str(0)

(* etl_northwind.py lines 218-227: ProductID coerced to a number, rows     *)
(* where it is missing removed, left join to dim_categories.               *)
FixProducts(rws, cats) ==
    MapRows(
        LeftJoin(DropNa(MapRows(rws,
                          LAMBDA r : SetCol(r, "ProductID",
                                            ToNumeric(r.ProductID))),
                        {"ProductID"}),
                 cats, "CategoryID", {"CategoryName"}),
        LAMBDA r : SetCol(r, "CategoryName",
                          FillNa(r.CategoryName, UnknownCategory)))

(* A faulty variant: no drop_duplicates on ProductKey.                     *)
DimProductStarKeepAll(rws) ==
    MapRows(rws,
        LAMBDA r : [ProductKey |-> r.ProductID,
                    CategoryName |-> r.CategoryName,
                    rest |-> r.rest])
(* etl_northwind.py lines 229-238                                          *)
DimProductStar(rws) ==
    DropDuplicates(
        MapRows(rws,
            LAMBDA r : [ProductKey |-> r.ProductID,
                        CategoryName |-> r.CategoryName,
                        rest |-> r.rest]),
        {"ProductKey"})

(* etl_northwind_sqlserver.py lines 150-179                                *)
DimProductEtl(rws, cats) ==
    DropDuplicates(
        DropNa(MapRows(
                 LeftJoin(rws,
                          MapRows(cats, LAMBDA r :
                              Project(r, {"CategoryID", "CategoryName"})),
                          "CategoryID", {"CategoryName"}),
                 LAMBDA r : [ProductKey |-> r.ProductID,
                             CategoryName |-> r.CategoryName,
                             rest |-> r.rest]),
               {"ProductKey"}),
        {"ProductKey"})

-----------------------------------------------------------------------------
(* Fact builder.                                                           *)

(* A faulty variant: the measures of an order without details stay         *)
(* missing.                                                                *)
FactRowNoFill(r, date) ==
    [OrderKey |-> r.OrderID,
     OrderDate |-> date,
     TimeKey |-> TimeKeyOf(date),
     CustomerKey |-> AsStrStrip(r.CustomerID),
     EmployeeKey |-> ToNumeric(r.EmployeeID),
     ShipperKey |-> ToNumeric(r.ShipVia),
     Freight |-> FillNa(ToNumeric(r.Freight), IntV(0)),
     DetailCount |-> r.DetailCount,
     TotalQuantity |-> r.TotalQuantity,
     AverageDiscount |-> r.AverageDiscount,
     TotalLineTotal |-> r.TotalLineTotal,
     rest |-> r.rest]

(* The columns of a joined order row after the fills, the renames and the  *)
(* coercions of the keys; date is the OrderDate already converted.         *)
FactRow(r, date) ==
    [OrderKey |-> r.OrderID,
     OrderDate |-> date,
     TimeKey |-> TimeKeyOf(date),
     CustomerKey |-> AsStrStrip(r.CustomerID),
     EmployeeKey |-> ToNumeric(r.EmployeeID),
     ShipperKey |-> ToNumeric(r.ShipVia),
     Freight |-> FillNa(ToNumeric(r.Freight), IntV(0)),
     DetailCount |-> FillNa(r.DetailCount, IntV(0)),
     TotalQuantity |-> FillNa(r.TotalQuantity, IntV(0)),
     AverageDiscount |-> FillNa(r.AverageDiscount, IntV(0)),
     TotalLineTotal |-> FillNa(r.TotalLineTotal, IntV(0)),
     rest |-> r.rest]

(* etl_northwind.py lines 253-290                                          *)
FactSalesStar(ords, details) ==
    MapRows(LeftJoin(ords, DetailSummary(details), "OrderID", Measures),
            LAMBDA r : FactRow(r, FillNa(ToDatetimeCoerce(r.OrderDate),
                                         DefaultDate)))

(* etl_northwind_sqlserver.py lines 228-259, when no OrderDate is missing  *)
FactSalesEtl(ords, details) ==
    MapRows(LeftJoin(ords, DetailSummary(details), "OrderID", Measures),
            LAMBDA r : FactRow(r, r.OrderDate))

-----------------------------------------------------------------------------
(* The pipeline.  entry is the script that runs ("star": build_star_schema *)
(* of etl_northwind.py, "etl": build_etl of etl_northwind_sqlserver.py),   *)
(* pc its position; excelFiles[t] is what load_excel(t) returns and        *)
(* sqlTables[t] what the database returns for table t: None when the file  *)
(* does not exist, when the connection fails or the table is missing.      *)
(* processed[f] is the content of data/processed/f, None when not written. *)

Files == {"dim_time.csv", "dim_customer.csv", "dim_product.csv",
          "dim_employee.csv", "dim_shipper.csv", "dim_categories.csv",
          "fact_sales.csv"}

(* An exception e ends the run.                                            *)
Abort(e) ==
    /\ pc' = "aborted" /\ error' = e
    /\ UNCHANGED <<dash, written, args, result,
                   entry, excelFiles, sqlTables,
                   orders, order_det,
                   customers, products, employees, shippers, categories,
                   dim_time, dim_customer, dim_employee, dim_shipper,
                   dim_categories, dim_product, fact_sales, processed>>

(* etl_northwind.py lines 128-138                                          *)
StarMerge ==
    /\ entry = "star" /\ pc = "merge"
    /\ LET m(t, key, dedupe) ==
               merge_sources(t, key, dedupe, excelFiles[t], sqlTables[t])
           o == m("Orders", {"OrderID"}, FALSE)
           od == m("Order Details", {"OrderID", "ProductID"}, FALSE)
       IN IF o.raised \/ od.raised THEN Abort("KeyError")
          ELSE /\ orders' = o.df
               /\ order_det' = od.df
               /\ customers' = m("Customers", {"CustomerID"}, TRUE).df
               /\ products' = m("Products", {"ProductID"}, TRUE).df
               /\ employees' = m("Employees", {"EmployeeID"}, TRUE).df
               /\ shippers' = m("Shippers", {"ShipperID"}, TRUE).df
               /\ categories' = m("Categories", {"CategoryID"}, TRUE).df
               /\ pc' = IF o.df.isNone \/ od.df.isNone THEN "aborted"
                        ELSE "clean_dates"
               /\ error' = IF o.df.isNone \/ od.df.isNone THEN "TypeError"
                           ELSE error
               /\ UNCHANGED <<dash, written, args, result,
                              entry, excelFiles, sqlTables,
                              dim_time,
                              dim_customer, dim_employee, dim_shipper,
                              dim_categories, dim_product, fact_sales,
                              processed>>

(* etl_northwind.py lines 143-149                                          *)
StarCleanDates ==
    /\ entry = "star" /\ pc = "clean_dates"
    /\ orders' = DataFrame(orders.columns,
          MapRows(orders.rows,
              LAMBDA r : SetCol(r, "OrderDate",
                  FillNa(ToDatetimeCoerce(r.OrderDate), DefaultDate))))
    /\ pc' = "dim_time"
    /\ UNCHANGED <<dash, error, written, args, result,
                   entry, excelFiles, sqlTables,
                   order_det, customers,
                   products, employees, shippers, categories, dim_time,
                   dim_customer, dim_employee, dim_shipper, dim_categories,
                   dim_product, fact_sales, processed>>

(* etl_northwind.py lines 154-160                                          *)
StarDimTime ==
    /\ entry = "star" /\ pc = "dim_time"
    /\ dim_time' = DataFrame({"TimeKey", "date", "year", "month", "day"},
                             DimTimeStar(orders.rows))
    /\ pc' = "dim_customer"
    /\ UNCHANGED <<dash, error, written, args, result,
                   entry, excelFiles, sqlTables,
                   orders, order_det,
                   customers, products, employees, shippers, categories,
                   dim_customer, dim_employee, dim_shipper, dim_categories,
                   dim_product, fact_sales, processed>>

(* etl_northwind.py lines 165-175                                          *)
StarDimCustomer ==
    /\ entry = "star" /\ pc = "dim_customer"
    /\ IF customers.isNone THEN Abort("TypeError")
       ELSE /\ dim_customer' = DataFrame({"CustomerKey", "rest"},
                                         DimCustomer(customers.rows))
            /\ pc' = "dim_employee"
            /\ UNCHANGED <<dash, error, written, args, result,
                           entry, excelFiles, sqlTables,
                           orders, order_det,
                           customers, products, employees, shippers,
                           categories, dim_time, dim_employee, dim_shipper,
                           dim_categories, dim_product, fact_sales,
                           processed>>

(* etl_northwind.py lines 180-190                                          *)
StarDimEmployee ==
    /\ entry = "star" /\ pc = "dim_employee"
    /\ IF employees.isNone THEN Abort("TypeError")
       ELSE /\ employees' = DataFrame(
                   employees.columns \cup {"EmployeeFullName"},
                   WithFullName(employees.rows))
            /\ dim_employee' = DataFrame(
                   {"EmployeeKey", "EmployeeFullName", "FirstName",
                    "LastName", "rest"},
                   DimEmployee(WithFullName(employees.rows)))
            /\ pc' = "dim_shipper"
            /\ UNCHANGED <<dash, error, written, args, result,
                           entry, excelFiles, sqlTables,
                           orders, order_det,
                           customers, products, shippers, categories,
                           dim_time, dim_customer, dim_shipper,
                           dim_categories, dim_product, fact_sales,
                           processed>>

(* etl_northwind.py lines 195-204                                          *)
StarDimShipper ==
    /\ entry = "star" /\ pc = "dim_shipper"
    /\ IF shippers.isNone THEN Abort("TypeError")
       ELSE /\ dim_shipper' = DataFrame({"ShipperKey", "rest"},
                                        DimShipper(shippers.rows))
            /\ pc' = "dim_categories"
            /\ UNCHANGED <<dash, error, written, args, result,
                           entry, excelFiles, sqlTables,
                           orders, order_det,
                           customers, products, employees, shippers,
                           categories, dim_time, dim_customer, dim_employee,
                           dim_categories, dim_product, fact_sales,
                           processed>>

(* etl_northwind.py lines 209-213                                          *)
StarDimCategories ==
    /\ entry = "star" /\ pc = "dim_categories"
    /\ IF categories.isNone THEN Abort("TypeError")
       ELSE /\ dim_categories' = DataFrame({"CategoryID", "CategoryName"},
                                           DimCategories(categories.rows))
            /\ pc' = "dim_product"
            /\ UNCHANGED <<dash, error, written, args, result,
                           entry, excelFiles, sqlTables,
                           orders, order_det,
                           customers, products, employees, shippers,
                           categories, dim_time, dim_customer, dim_employee,
                           dim_shipper, dim_product, fact_sales, processed>>

(* etl_northwind.py lines 218-238                                          *)
StarDimProduct ==
    /\ entry = "star" /\ pc = "dim_product"
    /\ IF products.isNone THEN Abort("TypeError")
       ELSE LET fixed == FixProducts(products.rows, dim_categories.rows)
            IN /\ products' = DataFrame(
                      products.columns \cup {"CategoryName"}, fixed)
               /\ dim_product' = DataFrame(
                      {"ProductKey", "CategoryName", "rest"},
                      DimProductStar(fixed))
               /\ pc' = "fact"
               /\ UNCHANGED <<dash, error, written, args, result,
                              entry, excelFiles, sqlTables,
                              orders,
                              order_det, customers, employees, shippers,
                              categories, dim_time, dim_customer,
                              dim_employee, dim_shipper, dim_categories,
                              fact_sales, processed>>

FactColumns == {"OrderKey", "OrderDate", "TimeKey", "CustomerKey",
                "EmployeeKey", "ShipperKey", "Freight", "DetailCount",
                "TotalQuantity", "AverageDiscount", "TotalLineTotal", "rest"}

(* etl_northwind.py lines 247-300                                          *)
StarFact ==
    /\ entry = "star" /\ pc = "fact"
    /\ LET details == MapRows(order_det.rows, NormalizeDetail)
       IN /\ order_det' = DataFrame(
                 order_det.columns \cup {"LineTotal", "DetailCount"},
                 details)
          /\ fact_sales' = DataFrame(FactColumns,
                                     FactSalesStar(orders.rows, details))
    /\ pc' = "export"
    /\ UNCHANGED <<dash, error, written, args, result,
                   entry, excelFiles, sqlTables,
                   orders, customers,
                   products, employees, shippers, categories, dim_time,
                   dim_customer, dim_employee, dim_shipper, dim_categories,
                   dim_product, processed>>

(* A variant of NUnique that counts a missing value as a value.            *)
NUniqueWithNaN(rws, c) == Cardinality({rws[i][c] : i \in 1..Len(rws)})

(* Series.nunique() of line 292: the number of distinct values of the      *)
(* column, missing values not counted (dropna=True is the default).        *)
NUnique(rws, c) ==
    Cardinality({rws[i][c] : i \in {j \in 1..Len(rws) : ~IsNull(rws[j][c])}})

(* etl_northwind.py lines 292-293: the gap the consistency check prints.   *)
Gap(ords, fact) == NUnique(ords, "OrderID") - Len(fact)

(* The table a run writes to the file f.                                   *)
Exported(f) ==
    CASE f = "dim_time.csv" -> dim_time
      [] f = "dim_customer.csv" -> dim_customer
      [] f = "dim_product.csv" -> dim_product
      [] f = "dim_employee.csv" -> dim_employee
      [] f = "dim_shipper.csv" -> dim_shipper
      [] f = "dim_categories.csv" -> dim_categories
      [] f = "fact_sales.csv" -> fact_sales

(* A variant of StarFiles that writes the fact table first.                *)
StarFilesFactFirst ==
    <<"fact_sales.csv", "dim_time.csv", "dim_customer.csv",
      "dim_product.csv", "dim_employee.csv", "dim_shipper.csv",
      "dim_categories.csv">>

StarFiles == <<"dim_time.csv", "dim_customer.csv", "dim_product.csv",
               "dim_employee.csv", "dim_shipper.csv", "dim_categories.csv",
               "fact_sales.csv">>

(* etl_northwind.py lines 305-311: one to_csv call, the next of the seven; *)
(* written is the list of the files the run has written so far.            *)
StarExport ==
    /\ entry = "star" /\ pc = "export"
    /\ LET f == StarFiles[Len(written) + 1]
       IN /\ processed' = [processed EXCEPT ![f] = Exported(f)]
          /\ written' = Append(written, f)
    /\ pc' = IF Len(written) + 1 = Len(StarFiles) THEN "done" ELSE "export"
    /\ UNCHANGED <<dash, error, args, result,
                   entry, excelFiles, sqlTables,
                   orders, order_det,
                   customers, products, employees, shippers, categories,
                   dim_time, dim_customer, dim_employee, dim_shipper,
                   dim_categories, dim_product, fact_sales>>

-----------------------------------------------------------------------------
(* etl_northwind_sqlserver.py build_etl                                    *)

(* lines 79-89: get_connection() and the seven load_table calls; each      *)
(* raises when the connection fails or the table is missing.               *)
EtlLoad ==
    /\ entry = "etl" /\ pc = "load"
    /\ IF \E t \in Tables : sqlTables[t].isNone
       THEN Abort("DatabaseError")
       ELSE /\ orders' = sqlTables["Orders"]
            /\ order_det' = sqlTables["Order Details"]
            /\ customers' = sqlTables["Customers"]
            /\ products' = sqlTables["Products"]
            /\ employees' = sqlTables["Employees"]
            /\ shippers' = sqlTables["Shippers"]
            /\ categories' = sqlTables["Categories"]
            /\ pc' = "merge"
            /\ UNCHANGED <<dash, error, written, args, result,
                           entry, excelFiles, sqlTables,
                           dim_time,
                           dim_customer, dim_employee, dim_shipper,
                           dim_categories, dim_product, fact_sales,
                           processed>>

(* lines 92-98: every table is merged with the default dedupe=True.        *)
EtlMerge ==
    /\ entry = "etl" /\ pc = "merge"
    /\ LET o == merge_with_excel(orders, "Orders", {"OrderID"}, TRUE,
                                 excelFiles["Orders"])
           od == merge_with_excel(order_det, "Order Details",
                                  {"OrderID", "ProductID"}, TRUE,
                                  excelFiles["Order Details"])
       IN IF o.raised \/ od.raised THEN Abort("KeyError")
          ELSE /\ orders' = o.df
               /\ order_det' = od.df
               /\ customers' = merge_with_excel(customers, "Customers",
                     {"CustomerID"}, TRUE, excelFiles["Customers"]).df
               /\ products' = merge_with_excel(products, "Products",
                     {"ProductID"}, TRUE, excelFiles["Products"]).df
               /\ employees' = merge_with_excel(employees, "Employees",
                     {"EmployeeID"}, TRUE, excelFiles["Employees"]).df
               /\ shippers' = merge_with_excel(shippers, "Shippers",
                     {"ShipperID"}, TRUE, excelFiles["Shippers"]).df
               /\ categories' = merge_with_excel(categories, "Categories",
                     {"CategoryID"}, TRUE, excelFiles["Categories"]).df
               /\ pc' = "dim_time"
               /\ UNCHANGED <<dash, error, written, args, result,
                              entry, excelFiles, sqlTables,
                              dim_time,
                              dim_customer, dim_employee, dim_shipper,
                              dim_categories, dim_product, fact_sales,
                              processed>>

(* lines 102-119: pd.to_datetime without errors="coerce" raises on a text  *)
(* that is no date.                                                        *)
EtlDimTime ==
    /\ entry = "etl" /\ pc = "dim_time"
    /\ IF ToDatetimeRaises(orders.rows) THEN Abort("ValueError")
       ELSE /\ dim_time' = DataFrame(
                   {"TimeKey", "date", "year", "month", "day", "year_month"},
                   DimTimeEtl(orders.rows))
            /\ pc' = "dim_customer"
            /\ UNCHANGED <<dash, error, written, args, result,
                           entry, excelFiles, sqlTables,
                           orders, order_det,
                           customers, products, employees, shippers,
                           categories, dim_customer, dim_employee,
                           dim_shipper, dim_categories, dim_product,
                           fact_sales, processed>>

(* lines 123-146                                                           *)
EtlDimCustomer ==
    /\ entry = "etl" /\ pc = "dim_customer"
    /\ dim_customer' = DataFrame({"CustomerKey", "rest"},
                                 DimCustomer(customers.rows))
    /\ pc' = "dim_product"
    /\ UNCHANGED <<dash, error, written, args, result,
                   entry, excelFiles, sqlTables,
                   orders, order_det,
                   customers, products, employees, shippers, categories,
                   dim_time, dim_employee, dim_shipper, dim_categories,
                   dim_product, fact_sales, processed>>

(* lines 150-179                                                           *)
EtlDimProduct ==
    /\ entry = "etl" /\ pc = "dim_product"
    /\ dim_product' = DataFrame({"ProductKey", "CategoryName", "rest"},
                                DimProductEtl(products.rows, categories.rows))
    /\ pc' = "dim_employee"
    /\ UNCHANGED <<dash, error, written, args, result,
                   entry, excelFiles, sqlTables,
                   orders, order_det,
                   customers, products, employees, shippers, categories,
                   dim_time, dim_customer, dim_employee, dim_shipper,
                   dim_categories, fact_sales, processed>>

(* lines 183-200                                                           *)
EtlDimEmployee ==
    /\ entry = "etl" /\ pc = "dim_employee"
    /\ employees' = DataFrame(employees.columns \cup {"EmployeeFullName"},
                              WithFullName(employees.rows))
    /\ dim_employee' = DataFrame(
           {"EmployeeKey", "EmployeeFullName", "FirstName", "LastName",
            "rest"},
           DimEmployee(WithFullName(employees.rows)))
    /\ pc' = "dim_shipper"
    /\ UNCHANGED <<dash, error, written, args, result,
                   entry, excelFiles, sqlTables,
                   orders, order_det,
                   customers, products, shippers, categories, dim_time,
                   dim_customer, dim_shipper, dim_categories, dim_product,
                   fact_sales, processed>>

(* lines 204-216                                                           *)
EtlDimShipper ==
    /\ entry = "etl" /\ pc = "dim_shipper"
    /\ dim_shipper' = DataFrame({"ShipperKey", "rest"},
                                DimShipper(shippers.rows))
    /\ pc' = "fact"
    /\ UNCHANGED <<dash, error, written, args, result,
                   entry, excelFiles, sqlTables,
                   orders, order_det,
                   customers, products, employees, shippers, categories,
                   dim_time, dim_customer, dim_employee, dim_categories,
                   dim_product, fact_sales, processed>>

(* lines 220-259: astype(int) of the TimeKey raises when an OrderDate is   *)
(* missing.                                                                *)
EtlFact ==
    /\ entry = "etl" /\ pc = "fact"
    /\ IF TimeKeyRaises(orders.rows) THEN Abort("ValueError")
       ELSE LET details == MapRows(order_det.rows, NormalizeDetail)
            IN /\ order_det' = DataFrame(
                      order_det.columns \cup {"LineTotal", "DetailCount"},
                      details)
               /\ fact_sales' = DataFrame(FactColumns,
                                   FactSalesEtl(orders.rows, details))
               /\ pc' = "export"
               /\ UNCHANGED <<dash, error, written, args, result,
                              entry, excelFiles, sqlTables,
                              orders,
                              customers, products, employees, shippers,
                              categories, dim_time, dim_customer,
                              dim_employee, dim_shipper, dim_categories,
                              dim_product, processed>>

EtlFiles == <<"dim_time.csv", "dim_customer.csv", "dim_product.csv",
              "dim_employee.csv", "dim_shipper.csv", "fact_sales.csv">>

(* lines 263-268: one to_csv call, the next of the six; dim_categories.csv *)
(* is not written.                                                         *)
EtlExport ==
    /\ entry = "etl" /\ pc = "export"
    /\ LET f == EtlFiles[Len(written) + 1]
       IN /\ processed' = [processed EXCEPT ![f] = Exported(f)]
          /\ written' = Append(written, f)
    /\ pc' = IF Len(written) + 1 = Len(EtlFiles) THEN "done" ELSE "export"
    /\ UNCHANGED <<dash, error, args, result,
                   entry, excelFiles, sqlTables,
                   orders, order_det,
                   customers, products, employees, shippers, categories,
                   dim_time, dim_customer, dim_employee, dim_shipper,
                   dim_categories, dim_product, fact_sales>>

Next ==
    \/ StarMerge \/ StarCleanDates \/ StarDimTime \/ StarDimCustomer
    \/ StarDimEmployee \/ StarDimShipper \/ StarDimCategories
    \/ StarDimProduct \/ StarFact \/ StarExport
    \/ EtlLoad \/ EtlMerge \/ EtlDimTime \/ EtlDimCustomer \/ EtlDimProduct
    \/ EtlDimEmployee \/ EtlDimShipper \/ EtlFact \/ EtlExport

-----------------------------------------------------------------------------
(* Inputs.  A source table is a sequence of at most MaxRows rows; row i of *)
(* source src has rest = [src, idx |-> i].  Each family below varies the   *)
(* cells of some columns over the kinds of cell the code distinguishes and *)
(* leaves the other tables at a fixed content.                             *)

SeqsUpTo(S, n) == UNION {[1..k -> S] : k \in 0..n}

Rest(src, i) == [src |-> src, idx |-> i]

With(r, o) == [k \in DOMAIN r |-> IF k \in DOMAIN o THEN o[k] ELSE r[k]]

OrderRow(src, i) ==
    [OrderID |-> IntV(i), OrderDate |-> Timestamp(1996, 7, 4, 0),
     CustomerID |-> Str(1), EmployeeID |-> IntV(1), ShipVia |-> IntV(1),
     Freight |-> IntV(3), rest |-> Rest(src, i)]
DetailRow(src, i) ==
    [OrderID |-> IntV(1), ProductID |-> IntV(i), Quantity |-> IntV(2),
     UnitPrice |-> IntV(10), Discount |-> IntV(0), rest |-> Rest(src, i)]
CustomerRow(src, i) == [CustomerID |-> Str(i), rest |-> Rest(src, i)]
ProductRow(src, i) ==
    [ProductID |-> IntV(i), CategoryID |-> IntV(1), rest |-> Rest(src, i)]
EmployeeRow(src, i) ==
    [EmployeeID |-> IntV(i), FirstName |-> Str(1), LastName |-> Str(2),
     rest |-> Rest(src, i)]
ShipperRow(src, i) == [ShipperID |-> IntV(i), rest |-> Rest(src, i)]
CategoryRow(src, i) ==
    [CategoryID |-> IntV(i), CategoryName |-> Str(i), rest |-> Rest(src, i)]

TemplateRow(t, src, i) ==
    CASE t = "Orders" -> OrderRow(src, i)
      [] t = "Order Details" -> DetailRow(src, i)
      [] t = "Customers" -> CustomerRow(src, i)
      [] t = "Products" -> ProductRow(src, i)
      [] t = "Employees" -> EmployeeRow(src, i)
      [] t = "Shippers" -> ShipperRow(src, i)
      [] t = "Categories" -> CategoryRow(src, i)

(* The table t of source src whose row i is the template row with the      *)
(* cells of ov[i] written over it.                                         *)
Frame(t, src, ov) ==
    DataFrame(DOMAIN TemplateRow(t, src, 1),
              [i \in 1..Len(ov) |-> With(TemplateRow(t, src, i), ov[i])])

(* A spreadsheet without the column OrderID.                               *)
NoOrderIdFrame(t) ==
    DataFrame(DOMAIN TemplateRow(t, "excel", 1) \ {"OrderID"},
              <<[k \in DOMAIN TemplateRow(t, "excel", 1) \ {"OrderID"} |->
                    TemplateRow(t, "excel", 1)[k]]>>)

DefaultSql(t) ==
    CASE t = "Orders" -> Frame(t, "sql", << <<>>, <<>> >>)
      [] t = "Products" ->
            Frame(t, "sql", << <<>>, [CategoryID |-> Null] >>)
      [] OTHER -> Frame(t, "sql", << <<>> >>)

Inputs(ex, sq) ==
    [excel |-> [t \in Tables |-> IF t \in DOMAIN ex THEN ex[t] ELSE None],
     sql |-> [t \in Tables |->
                 IF t \in DOMAIN sq THEN sq[t] ELSE DefaultSql(t)]]

(* The tables of at most n rows with cells from S.                         *)
Frames(t, src, S, n) == {Frame(t, src, ov) : ov \in SeqsUpTo(S, n)}

(* Orders: the OrderID of both sources varies.                             *)
ExcelOrderIds == {Str(1), IntV(-1), IntV(1), NumStr(1)}
SqlOrderIds == {Null, IntV(1), IntV(EXCEL_ORDER_OFFSET - 1),
                IntV(EXCEL_ORDER_OFFSET + 1)}
OrderInputs(n) ==
    {Inputs("Orders" :> e, "Orders" :> q) :
        e \in {None, NoOrderIdFrame("Orders")} \cup
              Frames("Orders", "excel",
                     {[OrderID |-> v] : v \in ExcelOrderIds}, n),
        q \in {None} \cup
              Frames("Orders", "sql",
                     {[OrderID |-> v] : v \in SqlOrderIds}, n)}

(* Order Details: both key columns of the database rows vary.              *)
DetailKeyInputs(n) ==
    {Inputs(("Orders" :> Frame("Orders", "excel", << <<>> >>))
              @@ ("Order Details" :> e),
            "Order Details" :> q) :
        e \in {None,
               Frame("Order Details", "excel", <<[OrderID |-> IntV(1)]>>)},
        q \in Frames("Order Details", "sql",
                     {[OrderID |-> o, ProductID |-> p] :
                         o \in {Null, IntV(1), IntV(2)},
                         p \in {Null, IntV(1), IntV(2)}}, n)}

(* Order Details: the measures vary, and the Freight of the second order.  *)
MeasureCells ==
    {[Quantity |-> IntV(2), UnitPrice |-> IntV(10), Discount |-> IntV(0)],
     [Quantity |-> IntV(1), UnitPrice |-> IntV(5), Discount |-> IntV(10)],
     [Quantity |-> Str(1), UnitPrice |-> Null, Discount |-> NumStr(5)]}
MeasureInputs(n) ==
    {Inputs(<<>>,
            ("Orders" :> Frame("Orders", "sql", << <<>>, [Freight |-> f] >>))
              @@ ("Order Details" :> q)) :
        f \in {IntV(3), Null, Str(1)},
        q \in Frames("Order Details", "sql",
                     {[OrderID |-> o] @@ m :
                         o \in {IntV(1), IntV(2)}, m \in MeasureCells}, n)}

(* Orders: the OrderDate varies.                                           *)
SqlDates == {Null, Timestamp(1996, 7, 4, 0), Timestamp(1996, 7, 4, 8),
             Timestamp(1996, 7, 5, 0)}
ExcelDates == {Str(1), Timestamp(1996, 7, 4, 0)}
DateInputs(n) ==
    {Inputs(IF e = None THEN <<>> ELSE "Orders" :> e, "Orders" :> q) :
        e \in {None} \cup
              {Frame("Orders", "excel", <<[OrderDate |-> d]>>) :
                  d \in ExcelDates},
        q \in Frames("Orders", "sql",
                     {[OrderDate |-> d] : d \in SqlDates}, n)}

(* Customers: the CustomerID varies, and the CustomerID of the first order. *)
CustomerInputs(n) ==
    {Inputs(IF e = None THEN <<>> ELSE "Customers" :> e,
            ("Customers" :> q)
              @@ ("Orders" :> Frame("Orders", "sql",
                                    << [CustomerID |-> c], <<>> >>))) :
        e \in {None} \cup
              Frames("Customers", "excel",
                     {[CustomerID |-> v] : v \in {Str(1), Str(2)}}, n),
        q \in Frames("Customers", "sql",
                     {[CustomerID |-> v] : v \in {Null, Str(1), PadStr(2)}},
                     n),
        c \in {Null, Str(1), PadStr(2), Str(3)}}

(* Products: the ProductID and the CategoryID vary.                        *)
ProductInputs(n) ==
    {Inputs(IF e = None THEN <<>> ELSE "Products" :> e, "Products" :> q) :
        e \in {None} \cup
              Frames("Products", "excel",
                     {[ProductID |-> v] : v \in {NumStr(1), Str(1)}}, n),
        q \in Frames("Products", "sql",
                     {[ProductID |-> v, CategoryID |-> c] :
                         v \in {Null, IntV(1)}, c \in {IntV(1), IntV(2)}}, n)}

(* Categories: the CategoryID varies.                                      *)
CategoryInputs(n) ==
    {Inputs(IF e = None THEN <<>> ELSE "Categories" :> e,
            "Categories" :> q) :
        e \in {None} \cup
              Frames("Categories", "excel",
                     {[CategoryID |-> v] : v \in {IntV(1), NumStr(1)}}, n),
        q \in Frames("Categories", "sql",
                     {[CategoryID |-> v] : v \in {Null, IntV(1)}}, n)}

(* Shippers: the ShipperID varies, and the ShipVia of the first order.     *)
ShipperInputs(n) ==
    {Inputs(IF e = None THEN <<>> ELSE "Shippers" :> e,
            ("Shippers" :> q)
              @@ ("Orders" :> Frame("Orders", "sql",
                                    << [ShipVia |-> c], <<>> >>))) :
        e \in {None} \cup
              Frames("Shippers", "excel",
                     {[ShipperID |-> v] : v \in {NumStr(1), Str(1)}}, n),
        q \in Frames("Shippers", "sql",
                     {[ShipperID |-> v] : v \in {Null, IntV(1), IntV(2)}}, n),
        c \in {Null, IntV(1), IntV(3)}}

(* Employees: the EmployeeID varies, and the EmployeeID of the first order. *)
EmployeeInputs(n) ==
    {Inputs(IF e = None THEN <<>> ELSE "Employees" :> e,
            ("Employees" :> q)
              @@ ("Orders" :> Frame("Orders", "sql",
                                    << [EmployeeID |-> c], <<>> >>))) :
        e \in {None} \cup
              Frames("Employees", "excel",
                     {[EmployeeID |-> v] : v \in {IntV(1), NumStr(1)}}, n),
        q \in Frames("Employees", "sql",
                     {[EmployeeID |-> v] : v \in {Null, IntV(1)}}, n),
        c \in {Null, IntV(1), IntV(2)}}

NoCall ==
    [fn |-> "none", table |-> "none", name |-> "none", dedupe |-> FALSE]

(* The dashboard is not running.                                           *)
NoDashboard == [running |-> FALSE]

InitWith(inputs) ==
    /\ dash = NoDashboard /\ error = "none" /\ written = << >>
    /\ args = NoCall /\ result = Return(None)
    /\ entry \in {"star", "etl"}
    /\ pc = IF entry = "star" THEN "merge" ELSE "load"
    /\ \E in \in inputs : excelFiles = in.excel /\ sqlTables = in.sql
    /\ orders = None /\ order_det = None /\ customers = None
    /\ products = None /\ employees = None /\ shippers = None
    /\ categories = None /\ dim_time = None /\ dim_customer = None
    /\ dim_employee = None /\ dim_shipper = None /\ dim_categories = None
    /\ dim_product = None /\ fact_sales = None
    /\ processed = [f \in Files |-> None]

OrderFamilies(n) ==
    OrderInputs(n) \cup DetailKeyInputs(n) \cup EmployeeInputs(n)
DetailFamilies(n) == DetailKeyInputs(n) \cup MeasureInputs(n)
DimensionFamilies(n) ==
    CustomerInputs(n) \cup ProductInputs(n) \cup CategoryInputs(n)
        \cup ShipperInputs(n) \cup EmployeeInputs(n)

InitOrders == InitWith(OrderFamilies(MaxRows))
InitDetails == InitWith(DetailFamilies(MaxRows))
InitDates == InitWith(DateInputs(MaxRows))
InitDimensions == InitWith(DimensionFamilies(MaxRows))
Init ==
    InitWith(OrderFamilies(MaxRows) \cup DetailFamilies(MaxRows)
                 \cup DateInputs(MaxRows) \cup DimensionFamilies(MaxRows))

Spec == Init /\ [][Next]_vars
SpecOrders == InitOrders /\ [][Next]_vars
SpecDetails == InitDetails /\ [][Next]_vars
SpecDates == InitDates /\ [][Next]_vars
SpecDimensions == InitDimensions /\ [][Next]_vars

-----------------------------------------------------------------------------
(* The source reconciler on its own: one call of merge_sources or of       *)
(* merge_with_excel, for a table args.table and a dedupe flag args.dedupe, *)
(* on the loaded tables excelFiles[args.table] and sqlTables[args.table];  *)
(* args.name is the spelling of the table name the call is given, result   *)
(* is what the call returns, or that it raised.                            *)

CallMergeSources ==
    /\ entry = "call" /\ pc = "call" /\ args.fn = "merge_sources"
    /\ result' = merge_sources(args.name, KeyColumns(args.table),
                               args.dedupe, excelFiles[args.table],
                               sqlTables[args.table])
    /\ pc' = "returned"
    /\ UNCHANGED <<dash, error, written, args,
                   entry, excelFiles, sqlTables,
                   orders, order_det, customers, products, employees,
                   shippers, categories,
                   dim_time, dim_customer, dim_employee, dim_shipper,
                   dim_categories, dim_product, fact_sales, processed>>

CallMergeWithExcel ==
    /\ entry = "call" /\ pc = "call" /\ args.fn = "merge_with_excel"
    /\ result' = merge_with_excel(sqlTables[args.table], args.name,
                                  KeyColumns(args.table), args.dedupe,
                                  excelFiles[args.table])
    /\ pc' = "returned"
    /\ UNCHANGED <<dash, error, written, args,
                   entry, excelFiles, sqlTables,
                   orders, order_det, customers, products, employees,
                   shippers, categories,
                   dim_time, dim_customer, dim_employee, dim_shipper,
                   dim_categories, dim_product, fact_sales, processed>>

NextReconciler == CallMergeSources \/ CallMergeWithExcel

(* Order Details: both key columns of both sources vary.                   *)
DetailKeyCells ==
    {[OrderID |-> o, ProductID |-> p] :
        o \in {Null, IntV(1), IntV(EXCEL_ORDER_OFFSET + 1)},
        p \in {Null, IntV(1)}}

ReconcilerInputs(n) ==
    {[table |-> "Orders", in |-> i] : i \in OrderInputs(n)} \cup
    {[table |-> "Customers", in |-> i] : i \in CustomerInputs(n)} \cup
    {[table |-> "Order Details",
      in |-> Inputs("Order Details" :> e, "Order Details" :> q)] :
        e \in Frames("Order Details", "excel", DetailKeyCells, n),
        q \in Frames("Order Details", "sql", DetailKeyCells, n)}

InitReconciler ==
    /\ dash = NoDashboard /\ error = "none" /\ written = << >>
    /\ entry = "call" /\ pc = "call"
    /\ \E c \in ReconcilerInputs(MaxRows) :
          /\ excelFiles = c.in.excel /\ sqlTables = c.in.sql
          /\ \E fn \in {"merge_sources", "merge_with_excel"},
                d \in BOOLEAN :
                 args = [fn |-> fn, table |-> c.table, name |-> c.table,
                         dedupe |-> d]
    /\ result = Return(None)
    /\ orders = None /\ order_det = None /\ customers = None
    /\ products = None /\ employees = None /\ shippers = None
    /\ categories = None /\ dim_time = None /\ dim_customer = None
    /\ dim_employee = None /\ dim_shipper = None /\ dim_categories = None
    /\ dim_product = None /\ fact_sales = None
    /\ processed = [f \in Files |-> None]

SpecReconciler == InitReconciler /\ [][NextReconciler]_vars

-----------------------------------------------------------------------------
(* Presence and absence of the sources.  For the entry points: every       *)
(* spreadsheet is absent, present, or (Orders, Order Details) present      *)
(* without its OrderID column; the database connection works, fails, or    *)
(* one table is missing in the database.  data/processed holds the files   *)
(* of a previous run.  For single calls of the reconciler: the same, with  *)
(* other spellings of the table name and with rows.                        *)

(* The logical tables whose spreadsheet must have the column OrderID.      *)
OrderTables == {"Orders", "Order Details"}

ExcelStates ==
    {x \in [Tables -> {"absent", "present", "no OrderID"}] :
        \A t \in Tables : x[t] = "no OrderID" => t \in OrderTables}

(* "ok", "failed", or the table that is missing in the database.           *)
DatabaseStates == {"ok", "failed"} \cup Tables

PresenceInputs ==
    {[excel |-> [t \in Tables |->
                    CASE x[t] = "absent" -> None
                      [] x[t] = "present" -> Frame(t, "excel", << <<>> >>)
                      [] x[t] = "no OrderID" -> NoOrderIdFrame(t)],
      sql |-> [t \in Tables |->
                  IF db = "failed" \/ db = t THEN None ELSE DefaultSql(t)]] :
        x \in ExcelStates, db \in DatabaseStates}

(* The content of a file written by a previous run.                        *)
PreviousFile == DataFrame({"previous"}, << >>)

InitPresence ==
    /\ dash = NoDashboard /\ error = "none" /\ written = << >>
    /\ args = NoCall /\ result = Return(None)
    /\ entry \in {"star", "etl"}
    /\ pc = IF entry = "star" THEN "merge" ELSE "load"
    /\ \E in \in PresenceInputs :
          excelFiles = in.excel /\ sqlTables = in.sql
    /\ orders = None /\ order_det = None /\ customers = None
    /\ products = None /\ employees = None /\ shippers = None
    /\ categories = None /\ dim_time = None /\ dim_customer = None
    /\ dim_employee = None /\ dim_shipper = None /\ dim_categories = None
    /\ dim_product = None /\ fact_sales = None
    /\ processed = [f \in Files |-> PreviousFile]

Spellings(t) ==
    CASE t = "Orders" -> {"Orders", "ORDERS", " orders "}
      [] t = "Order Details" -> {"Order Details", "order_details"}
      [] OTHER -> {t}

CallCells(t) ==
    CASE t = "Orders" -> {[OrderID |-> IntV(1)], [OrderID |-> Str(1)]}
      [] t = "Order Details" -> {[OrderID |-> IntV(1)], [OrderID |-> Null]}
      [] t = "Customers" ->
            {[CustomerID |-> Str(1)], [CustomerID |-> Null]}

CallInputs(n) ==
    UNION {
      {[table |-> t, name |-> nm,
        in |-> [excel |-> [u \in Tables |-> IF u = t THEN e ELSE None],
                sql |-> [u \in Tables |-> IF u = t THEN q ELSE None]]] :
          nm \in Spellings(t),
          e \in {None} \cup Frames(t, "excel", CallCells(t), n)
                \cup (IF t \in OrderTables THEN {NoOrderIdFrame(t)}
                      ELSE {}),
          q \in {None} \cup Frames(t, "sql", CallCells(t), n)} :
      t \in {"Orders", "Order Details", "Customers"}}

InitCalls ==
    /\ dash = NoDashboard /\ error = "none" /\ written = << >>
    /\ entry = "call" /\ pc = "call"
    /\ \E c \in CallInputs(MaxRows) :
          /\ excelFiles = c.in.excel /\ sqlTables = c.in.sql
          /\ \E fn \in {"merge_sources", "merge_with_excel"},
                d \in BOOLEAN :
                 args = [fn |-> fn, table |-> c.table, name |-> c.name,
                         dedupe |-> d]
    /\ result = Return(None)
    /\ orders = None /\ order_det = None /\ customers = None
    /\ products = None /\ employees = None /\ shippers = None
    /\ categories = None /\ dim_time = None /\ dim_customer = None
    /\ dim_employee = None /\ dim_shipper = None /\ dim_categories = None
    /\ dim_product = None /\ fact_sales = None
    /\ processed = [f \in Files |-> PreviousFile]

InitSources == InitPresence \/ InitCalls
NextSources == Next \/ NextReconciler
SpecSources == InitSources /\ [][NextSources]_vars

-----------------------------------------------------------------------------
(* dashboard_northwind.py: the dashboard, rerun by Streamlit on every      *)
(* interaction, beside export runs that rewrite the processed files.       *)
(*                                                                         *)
(* dash.disk      the processed files: for each whether it exists, its     *)
(*                st_mtime_ns, its st_size and the export run it is from   *)
(* dash.clock     the time of the last write                               *)
(* dash.exports   the number of export runs started                        *)
(* dash.next      the position in DATA_FILES of the file the running       *)
(*                export writes next, 0 when no export is running          *)
(* dash.size      the size of the files of the running export              *)
(* dash.cache     the entry of st.cache_data for load_data: its key, the   *)
(*                value returned and the signature it was computed under   *)
(* dash.signature the signature computed by the last run of main()         *)
(* dash.seen      the export run of each file on disk at that run          *)
(* dash.shown     what that run of main() displays                         *)

(* lines 19-25; the export writes these five in this order.                *)
DATA_FILES == <<"dim_time.csv", "dim_customer.csv", "dim_employee.csv",
                "dim_shipper.csv", "fact_sales.csv">>

DataFileSet == {DATA_FILES[i] : i \in 1..Len(DATA_FILES)}

FileSizes == {1, 2}

NoFile == [exists |-> FALSE, mtime |-> 0, size |-> 0, snapshot |-> 0]

(* lines 29-39: (name, st_mtime_ns, st_size) of each file, or              *)
(* (name, None, None) when the file is not found.                          *)
processed_signature(disk) ==
    [i \in 1..Len(DATA_FILES) |->
        LET name == DATA_FILES[i]
        IN IF disk[name].exists
           THEN [name |-> name, found |-> TRUE,
                 mtime |-> disk[name].mtime, size |-> disk[name].size]
           ELSE [name |-> name, found |-> FALSE, mtime |-> 0, size |-> 0]]

(* line 43: the parameters of load_data; st.cache_data leaves every        *)
(* parameter whose name begins with an underscore out of the cache key.    *)
LoadDataParameters == <<[name |-> "_signature", underscore |-> TRUE]>>

(* The key st.cache_data looks the call up under: the values of the        *)
(* hashed parameters.                                                      *)
CacheKey(values) ==
    LET hashed == {i \in 1..Len(LoadDataParameters) :
                       ~LoadDataParameters[i].underscore}
    IN [i \in hashed |-> values[i]]

(* lines 44-61, the body of load_data: read_csv of the five files, which   *)
(* raises when one is not found, and their join; the value is identified   *)
(* by the export run each file read came from.                             *)
load_data(disk) ==
    IF \E f \in DataFileSet : ~disk[f].exists
    THEN [raised |-> TRUE, df |-> [f \in DataFileSet |-> 0]]
    ELSE [raised |-> FALSE, df |-> [f \in DataFileSet |-> disk[f].snapshot]]

EmptyCache == [filled |-> FALSE]

NothingShown == [kind |-> "nothing"]

DashFrame ==
    UNCHANGED <<error, written, args, result, entry, pc, excelFiles,
                sqlTables, orders, order_det, customers, products,
                employees, shippers, categories, dim_time, dim_customer,
                dim_employee, dim_shipper, dim_categories, dim_product,
                fact_sales, processed>>

(* etl_northwind.py lines 305-311, seen from the dashboard: an export run  *)
(* writes the next of the files the dashboard reads.                       *)
DashExport ==
    /\ dash.running
    /\ \E size \in FileSizes :
          LET starting == dash.next = 0
              i == IF starting THEN 1 ELSE dash.next
              sz == IF starting THEN size ELSE dash.size
              run == IF starting THEN dash.exports + 1 ELSE dash.exports
          IN /\ starting => dash.exports < MaxExports
             /\ dash' = [dash EXCEPT
                    !.disk[DATA_FILES[i]] =
                        [exists |-> TRUE, mtime |-> dash.clock + 1,
                         size |-> sz, snapshot |-> run],
                    !.clock = @ + 1,
                    !.exports = run,
                    !.size = sz,
                    !.next = IF i = Len(DATA_FILES) THEN 0 ELSE i + 1]
    /\ DashFrame

(* lines 73-74, main(): signature = _processed_signature() and             *)
(* df = load_data(signature) through st.cache_data; an exception is not    *)
(* cached and ends the run of the script.                                  *)
DashRerun ==
    /\ dash.running
    /\ LET signature == processed_signature(dash.disk)
           key == CacheKey(<<signature>>)
           hit == dash.cache.filled /\ dash.cache.key = key
           out == load_data(dash.disk)
           seen == [f \in DataFileSet |-> dash.disk[f].snapshot]
       IN dash' = [dash EXCEPT
              !.signature = signature,
              !.seen = seen,
              !.cache = IF hit \/ out.raised THEN @
                        ELSE [filled |-> TRUE, key |-> key,
                              value |-> out.df, under |-> signature],
              !.shown = IF hit
                        THEN [kind |-> "data", df |-> dash.cache.value]
                        ELSE IF out.raised
                             THEN [kind |-> "FileNotFoundError"]
                             ELSE [kind |-> "data", df |-> out.df]]
    /\ DashFrame

InitDashboard ==
    /\ dash = [running |-> TRUE,
               disk |-> [f \in DataFileSet |-> NoFile],
               clock |-> 0, exports |-> 0, next |-> 0, size |-> 0,
               cache |-> EmptyCache,
               signature |-> processed_signature(
                                 [f \in DataFileSet |-> NoFile]),
               seen |-> [f \in DataFileSet |-> 0],
               shown |-> NothingShown]
    /\ error = "none" /\ written = << >>
    /\ args = NoCall /\ result = Return(None)
    /\ entry = "dashboard" /\ pc = "main"
    /\ excelFiles = [t \in Tables |-> None]
    /\ sqlTables = [t \in Tables |-> None]
    /\ orders = None /\ order_det = None /\ customers = None
    /\ products = None /\ employees = None /\ shippers = None
    /\ categories = None /\ dim_time = None /\ dim_customer = None
    /\ dim_employee = None /\ dim_shipper = None /\ dim_categories = None
    /\ dim_product = None /\ fact_sales = None
    /\ processed = [f \in Files |-> None]

NextDashboard == DashExport \/ DashRerun

SpecDashboard == InitDashboard /\ [][NextDashboard]_vars

-----------------------------------------------------------------------------
(* Properties.                                                             *)

(* The reconciled table t, right after the merges.                         *)
Reconciled(t) ==
    CASE t = "Orders" -> orders
      [] t = "Order Details" -> order_det
      [] t = "Customers" -> customers
      [] t = "Products" -> products
      [] t = "Employees" -> employees
      [] t = "Shippers" -> shippers
      [] t = "Categories" -> categories

AfterMerge ==
    \/ entry = "star" /\ pc = "clean_dates"
    \/ entry = "etl" /\ pc = "dim_time"

(* The dedupe flag the entry point passes for table t.                     *)
DedupeFlag(t) == entry = "etl" \/ ~OrderBearing(t)

SourceRows(df) == IF df.isNone THEN << >> ELSE df.rows

(* The rows as loaded: spreadsheet rows, then database rows.               *)
RawPool(t) == SourceRows(excelFiles[t]) \o SourceRows(sqlTables[t])

(* The rows as concatenated: for Orders and Order Details the spreadsheet  *)
(* rows with a numeric OrderID, that OrderID raised by 200000; then the    *)
(* database rows.                                                          *)
ShiftedPool(t) ==
    LET ex == SourceRows(excelFiles[t])
        num == SelectSeq(ex, LAMBDA r : r.OrderID.t \in {"int", "numstr"})
    IN (IF t \in {"Orders", "Order Details"}
        THEN [i \in 1..Len(num) |->
                 [num[i] EXCEPT !.OrderID = IntV(num[i].OrderID.n + 200000)]]
        ELSE ex) \o SourceRows(sqlTables[t])

NonNullKey(r, K) == \A c \in K : ~IsNull(r[c])

FirstWith(pool, k, K) ==
    pool[CHOOSE i \in 1..Len(pool) :
            /\ Key(pool[i], K) = k
            /\ \A j \in 1..(i-1) : Key(pool[j], K) # k]

(* Every key that is not missing and occurs on two or more rows of pool    *)
(* is on exactly one row of merged, which has the non-key fields of the    *)
(* first row of pool with that key.                                        *)
FirstWins(pool, merged, K) ==
    \A i \in 1..Len(pool) :
        (/\ NonNullKey(pool[i], K)
         /\ \E j \in 1..Len(pool) :
                j # i /\ Key(pool[j], K) = Key(pool[i], K))
        => /\ Cardinality({k \in 1..Len(merged) :
                   Key(merged[k], K) = Key(pool[i], K)}) = 1
           /\ \A k \in 1..Len(merged) :
                  Key(merged[k], K) = Key(pool[i], K)
                  => merged[k].rest = FirstWith(pool, Key(pool[i], K), K).rest

DedupeReturned ==
    pc = "returned" /\ args.dedupe /\ ~result.raised /\ ~result.df.isNone

(* C1, as stated: with dedupe=true, a key that two or more of the loaded   *)
(* rows carry (all key cells present) is on exactly one reconciled row,    *)
(* which has the non-key fields of the first such row, spreadsheet rows    *)
(* before database rows.                                                   *)
C1_AsStated ==
    DedupeReturned =>
        FirstWins(RawPool(args.table), result.df.rows,
                  KeyColumns(args.table))

(* C1, amended: with dedupe=true, a key that two or more rows of the       *)
(* concatenation carry (all key cells present) is on exactly one           *)
(* reconciled row, which has the non-key fields of the first such row; the *)
(* concatenation is the spreadsheet rows followed by the database rows,    *)
(* where for Orders and Order Details the spreadsheet rows are those with  *)
(* a numeric OrderID, carrying that OrderID plus 200000.                   *)
C1_FirstRowWins ==
    DedupeReturned =>
        FirstWins(ShiftedPool(args.table), result.df.rows,
                  KeyColumns(args.table))

(* A spreadsheet customer and a database customer with the same            *)
(* CustomerID were merged and the spreadsheet row is the one kept.         *)
C1_Witness ==
    /\ DedupeReturned /\ args.table = "Customers"
    /\ \E i \in 1..Len(SourceRows(excelFiles["Customers"])) :
       \E j \in 1..Len(sqlTables["Customers"].rows) :
          /\ excelFiles["Customers"].rows[i].CustomerID =
                 sqlTables["Customers"].rows[j].CustomerID
          /\ Cardinality({k \in 1..Len(result.df.rows) :
                 result.df.rows[k].CustomerID =
                     sqlTables["Customers"].rows[j].CustomerID}) = 1
          /\ \E k \in 1..Len(result.df.rows) :
                 result.df.rows[k] = excelFiles["Customers"].rows[i]

BothPresent(t) == ~excelFiles[t].isNone /\ ~sqlTables[t].isNone

(* The loaded row a reconciled row comes from.                             *)
SourceRow(t, r) ==
    IF r.rest.src = "excel" THEN excelFiles[t].rows[r.rest.idx]
    ELSE sqlTables[t].rows[r.rest.idx]

FromExcel(r) == r.rest.src = "excel"
FromSql(r) == r.rest.src = "sql"

IsNumber(v) == v.t \in {"int", "numstr"}

(* On the reconciled table t: database rows keep the OrderID they were     *)
(* loaded with when t is Orders or Order Details, and every row of another *)
(* table keeps its key cells.                                              *)
OnlyExcelOrderIdsChange(t) ==
    \A i \in 1..Len(Reconciled(t).rows) :
        LET r == Reconciled(t).rows[i]
        IN IF OrderBearing(t)
           THEN FromSql(r) => r.OrderID = SourceRow(t, r).OrderID
           ELSE \A c \in KeyColumns(t) : r[c] = SourceRow(t, r)[c]

KeySpacesDisjoint(t) ==
    \A i, j \in 1..Len(Reconciled(t).rows) :
        (FromExcel(Reconciled(t).rows[i]) /\ FromSql(Reconciled(t).rows[j]))
        => Reconciled(t).rows[i].OrderID # Reconciled(t).rows[j].OrderID

(* C3, as stated: in the reconciled Orders and Order Details tables no     *)
(* OrderID is both on a spreadsheet row and on a database row, whatever    *)
(* the inputs.                                                             *)
C3_AsStated ==
    AfterMerge =>
        KeySpacesDisjoint("Orders") /\ KeySpacesDisjoint("Order Details")

(* The database OrderIDs of t are below 200000 and the numeric spreadsheet *)
(* OrderIDs are not negative.                                              *)
IdsInRange(t) ==
    /\ \A i \in 1..Len(SourceRows(sqlTables[t])) :
           LET v == sqlTables[t].rows[i].OrderID
           IN IsNull(v) \/ v.n < 200000
    /\ \A i \in 1..Len(SourceRows(excelFiles[t])) :
           LET v == excelFiles[t].rows[i].OrderID
           IN IsNumber(v) => v.n >= 0

(* C3, amended: when every database OrderID is below 200000 and every      *)
(* numeric spreadsheet OrderID is not negative, no OrderID of the          *)
(* reconciled Orders (Order Details) table is both on a spreadsheet row    *)
(* and on a database row.                                                  *)
C3_DisjointInRange ==
    AfterMerge =>
        \A t \in {"Orders", "Order Details"} :
            IdsInRange(t) => KeySpacesDisjoint(t)

(* Spreadsheet order 1 and database order 1 are both in the reconciled     *)
(* Orders table of build_star_schema, under different OrderIDs.            *)
C3_Witness ==
    /\ AfterMerge /\ entry = "star" /\ IdsInRange("Orders")
    /\ \E i, j \in 1..Len(orders.rows) :
          /\ FromExcel(orders.rows[i]) /\ FromSql(orders.rows[j])
          /\ SourceRow("Orders", orders.rows[i]).OrderID = IntV(1)
          /\ orders.rows[j].OrderID = IntV(1)

(* The rows merge with dedupe=false keeps: the spreadsheet rows with a     *)
(* numeric OrderID and all the database rows.                              *)
RowsToKeep(t) ==
    Len(SelectSeq(SourceRows(excelFiles[t]),
                  LAMBDA r : IsNumber(r.OrderID)))
      + Len(SourceRows(sqlTables[t]))

(* C4: in build_star_schema and in build_etl the reconciled Orders and     *)
(* Order Details tables hold every database row and every spreadsheet row  *)
(* with a numeric OrderID: as many rows as the two together, none removed  *)
(* as a duplicate or for a missing key cell.                               *)
C4_AllRowsKept ==
    AfterMerge =>
        \A t \in {"Orders", "Order Details"} :
            Len(Reconciled(t).rows) = RowsToKeep(t)

(* C4 for build_star_schema alone.                                         *)
C4_AllRowsKeptStar == entry = "star" => C4_AllRowsKept


FactBuilt == pc \in {"export", "done"}

NoRepeat(rws, c) ==
    \A i, j \in 1..Len(rws) : rws[i][c] = rws[j][c] => i = j

(* C9, as stated: no two rows of fact_sales share an OrderKey, whatever    *)
(* the Orders inputs.                                                      *)
C9_AsStated == FactBuilt => NoRepeat(fact_sales.rows, "OrderKey")

(* C9, amended: fact_sales has exactly one row for each row of the         *)
(* reconciled Orders table, in the same order and with that row's OrderID  *)
(* as OrderKey, so no two fact rows share an OrderKey whenever no two      *)
(* reconciled Orders rows share an OrderID.                                *)
C9_OneRowPerOrderRow ==
    FactBuilt =>
        /\ Len(fact_sales.rows) = Len(orders.rows)
        /\ \A i \in 1..Len(fact_sales.rows) :
               /\ fact_sales.rows[i].OrderKey = orders.rows[i].OrderID
               /\ fact_sales.rows[i].rest = orders.rows[i].rest
        /\ NoRepeat(orders.rows, "OrderID")
               => NoRepeat(fact_sales.rows, "OrderKey")

(* build_star_schema built the fact table of two orders with different     *)
(* OrderIDs, one of them with two detail rows.                             *)
C9_Witness ==
    /\ FactBuilt /\ entry = "star"
    /\ Len(fact_sales.rows) >= 2
    /\ NoRepeat(fact_sales.rows, "OrderKey")
    /\ \E i \in 1..Len(fact_sales.rows) :
           fact_sales.rows[i].DetailCount = IntV(2)


KeysOf(df, c) == {df.rows[i][c] : i \in 1..Len(df.rows)}

UniqueKey(df, c) ==
    /\ \A i \in 1..Len(df.rows) : ~IsNull(df.rows[i][c])
    /\ NoRepeat(df.rows, c)

(* C5: in the Customer, Product, Employee and Shipper dimensions of a run  *)
(* the surrogate key is present on every row and on no two rows the same;  *)
(* the left join of Products to Categories yields every product row once.  *)
C5_DimensionKeysUnique ==
    FactBuilt =>
        /\ UniqueKey(dim_customer, "CustomerKey")
        /\ UniqueKey(dim_product, "ProductKey")
        /\ UniqueKey(dim_employee, "EmployeeKey")
        /\ UniqueKey(dim_shipper, "ShipperKey")
        /\ entry = "star" => NoRepeat(products.rows, "rest")

(* build_star_schema reconciled a spreadsheet product "1" and a database   *)
(* product 1, and dim_product holds ProductKey 1 once.                     *)
C5_Witness ==
    /\ FactBuilt /\ entry = "star"
    /\ Cardinality({i \in 1..Len(products.rows) :
                       products.rows[i].ProductID = IntV(1)}) >= 2
    /\ Cardinality({i \in 1..Len(dim_product.rows) :
                       dim_product.rows[i].ProductKey = IntV(1)}) = 1

(* C6: no two rows of dim_time share a TimeKey, also when several orders   *)
(* fall on the same day at different times.                                *)
C6_TimeKeyUnique ==
    ~dim_time.isNone => NoRepeat(dim_time.rows, "TimeKey")

(* C7: once a run has built the fact table (it then exports), every fact   *)
(* row has a TimeKey and that TimeKey is in dim_time, also for orders      *)
(* whose date was missing or no date.                                      *)
C7_TimeKeyInDimTime ==
    FactBuilt =>
        \A i \in 1..Len(fact_sales.rows) :
            /\ ~IsNull(fact_sales.rows[i].TimeKey)
            /\ fact_sales.rows[i].TimeKey \in KeysOf(dim_time, "TimeKey")

(* build_star_schema exported an order loaded without a date: its fact row *)
(* has TimeKey 19960101, and an order of another day is there too.         *)
C7_Witness ==
    /\ pc = "done" /\ entry = "star"
    /\ \E i \in 1..Len(fact_sales.rows) :
          /\ IsNull(SourceRow("Orders", fact_sales.rows[i]).OrderDate)
          /\ fact_sales.rows[i].TimeKey = IntV(19960101)
    /\ \E i \in 1..Len(fact_sales.rows) :
          fact_sales.rows[i].TimeKey = IntV(19960705)

(* C8: in the fact table of build_star_schema every CustomerKey is in      *)
(* dim_customer, and every EmployeeKey and ShipperKey is missing or in     *)
(* dim_employee and dim_shipper.                                           *)
C8_NoOrphanKeys ==
    (FactBuilt /\ entry = "star") =>
        \A i \in 1..Len(fact_sales.rows) :
            LET f == fact_sales.rows[i]
            IN /\ f.CustomerKey \in KeysOf(dim_customer, "CustomerKey")
               /\ \/ IsNull(f.EmployeeKey)
                  \/ f.EmployeeKey \in KeysOf(dim_employee, "EmployeeKey")
               /\ \/ IsNull(f.ShipperKey)
                  \/ f.ShipperKey \in KeysOf(dim_shipper, "ShipperKey")

(* The reconciled Order Details rows with the OrderID of fact row f.       *)
MatchingDetails(f) ==
    SelectSeq(order_det.rows,
              LAMBDA r : ~IsNull(r.OrderID) /\ r.OrderID = f.OrderKey)

(* C10: in every fact row DetailCount is a number >= 0 and no measure is   *)
(* missing; an order without matching detail rows has DetailCount,         *)
(* TotalQuantity, AverageDiscount and TotalLineTotal 0, and DetailCount is *)
(* 0 for such orders only.                                                 *)
C10_MeasureDefaults ==
    FactBuilt =>
        \A i \in 1..Len(fact_sales.rows) :
            LET f == fact_sales.rows[i]
            IN /\ f.DetailCount.t = "int" /\ f.DetailCount.n >= 0
               /\ \A c \in Measures \cup {"Freight"} : ~IsNull(f[c])
               /\ MatchingDetails(f) = << >> =>
                      \A c \in Measures : f[c] = IntV(0)
               /\ f.DetailCount = IntV(0) => MatchingDetails(f) = << >>

(* A fact table with an order without details, whose Freight was loaded    *)
(* as a text, next to an order with details.                               *)
C10_Witness ==
    /\ FactBuilt
    /\ \E i, j \in 1..Len(fact_sales.rows) :
          /\ fact_sales.rows[i].DetailCount = IntV(0)
          /\ SourceRow("Orders", fact_sales.rows[i]).Freight = Str(1)
          /\ fact_sales.rows[i].Freight = IntV(0)
          /\ fact_sales.rows[j].DetailCount.n >= 1

(* The number a loaded cell counts for in the aggregates: its value when   *)
(* it is a number or a numeral, 0 when it is missing or another text.      *)
NumberOr0(v) == IF IsNumber(v) THEN v.n ELSE 0

(* What a detail row as loaded contributes to the measure m.               *)
Contribution(r, m) ==
    CASE m = "TotalQuantity" -> NumberOr0(r.Quantity)
      [] m = "AverageDiscount" -> NumberOr0(r.Discount)
      [] m = "TotalLineTotal" ->
            NumberOr0(r.UnitPrice) * NumberOr0(r.Quantity)
              * (100 - NumberOr0(r.Discount))

(* The sum of the contributions to m of the detail rows ds.                *)
RECURSIVE SumLoaded(_, _)
SumLoaded(ds, m) ==
    IF ds = << >> THEN 0
    ELSE Contribution(SourceRow("Order Details", Head(ds)), m)
           + SumLoaded(Tail(ds), m)

(* C11: a fact row whose OrderKey is on at least one reconciled Order      *)
(* Details row has DetailCount the number of those rows, TotalQuantity the *)
(* sum of their Quantity, TotalLineTotal the sum of UnitPrice x Quantity x *)
(* (1 - Discount) and AverageDiscount the mean of their Discount, all      *)
(* taken from the cells as loaded, a missing or non-numeric cell counting  *)
(* as 0 (discounts and line totals in hundredths).                         *)
C11_DetailAggregation ==
    FactBuilt =>
        \A i \in 1..Len(fact_sales.rows) :
            LET f == fact_sales.rows[i]
                ds == MatchingDetails(f)
                avg == f.AverageDiscount
            IN ds # << >> =>
                 /\ f.DetailCount = IntV(Len(ds))
                 /\ f.TotalQuantity = IntV(SumLoaded(ds, "TotalQuantity"))
                 /\ f.TotalLineTotal = IntV(SumLoaded(ds, "TotalLineTotal"))
                 /\ avg.n * Len(ds) =
                        SumLoaded(ds, "AverageDiscount")
                          * (IF avg.t = "ratio" THEN avg.d ELSE 1)

(* The rows {Qty 2, Price 10, Disc 0} and {Qty 1, Price 5, Disc 0.10} of   *)
(* one order were aggregated to 2, 3, 0.05 and 24.50.                      *)
C11_Witness ==
    /\ FactBuilt
    /\ \E i \in 1..Len(fact_sales.rows) :
          LET f == fact_sales.rows[i]
          IN /\ f.DetailCount = IntV(2) /\ f.TotalQuantity = IntV(3)
             /\ f.AverageDiscount = IntV(5)
             /\ f.TotalLineTotal = IntV(2450)

(* Nothing but a date can stop the run: the database returned every table  *)
(* and a spreadsheet of Orders or Order Details has its OrderID column.    *)
SourcesWellFormed ==
    \A t \in Tables :
        /\ ~sqlTables[t].isNone
        /\ (OrderBearing(t) /\ ~excelFiles[t].isNone)
               => "OrderID" \in excelFiles[t].columns

(* C12: in build_star_schema and in build_etl an order whose OrderDate is  *)
(* missing or is no date does not abort the run, and its fact row has the  *)
(* date 1996-01-01 and TimeKey 19960101; the fact row of any other order   *)
(* has the TimeKey YYYYMMDD of the order's own date.                       *)
C12_DateFallback ==
    /\ SourcesWellFormed => pc # "aborted"
    /\ FactBuilt =>
          \A i \in 1..Len(fact_sales.rows) :
              LET f == fact_sales.rows[i]
                  loaded == SourceRow("Orders", f).OrderDate
              IN IF loaded.t = "ts"
                 THEN f.TimeKey = TimeKeyOf(loaded)
                 ELSE f.OrderDate = DefaultDate /\ f.TimeKey = IntV(19960101)

(* C12 for build_star_schema alone.                                        *)
C12_DateFallbackStar == entry = "star" => C12_DateFallback

(* The spreadsheet of table t is present and has no column OrderID.        *)
LacksOrderId(t) ==
    ~excelFiles[t].isNone /\ "OrderID" \notin excelFiles[t].columns

(* The entry point is past its reconciliation of the seven tables.         *)
PastMerge == entry \in {"star", "etl"} /\ pc \notin {"load", "merge"}

(* C13: a call of the reconciler for Orders or Order Details, however the  *)
(* name is spelt, raises when the spreadsheet is present without the       *)
(* column OrderID, with or without database rows and for either dedupe     *)
(* flag, and a call for another table does not raise; a run whose Orders   *)
(* or Order Details spreadsheet lacks the column is aborted once past the  *)
(* reconciliation, by that KeyError unless build_etl failed to load the    *)
(* database before, and has written no file; a KeyError has no other       *)
(* cause.                                                                  *)
C13_MissingOrderIdAborts ==
    /\ pc = "returned" =>
          (result.raised <=>
              (args.table \in OrderTables /\ LacksOrderId(args.table)))
    /\ (PastMerge /\ \E t \in OrderTables : LacksOrderId(t)) =>
          /\ pc = "aborted" /\ written = << >>
          /\ \/ error = "KeyError"
             \/ entry = "etl" /\ error = "DatabaseError"
                  /\ \E t \in Tables : sqlTables[t].isNone
    /\ error = "KeyError" => \E t \in OrderTables : LacksOrderId(t)

(* merge_sources("order_details", ..., dedupe=False) raised on a           *)
(* spreadsheet without OrderID although the database rows were there.      *)
C13_Witness ==
    /\ pc = "returned" /\ args.fn = "merge_sources"
    /\ args.name = "order_details" /\ ~args.dedupe
    /\ LacksOrderId("Order Details")
    /\ ~sqlTables["Order Details"].isNone
    /\ result.raised

(* Every spreadsheet is present, with its OrderID column where required.   *)
AllSpreadsheetsPresent ==
    \A t \in Tables :
        ~excelFiles[t].isNone /\ (t \in OrderTables => ~LacksOrderId(t))

(* C14: in build_star_schema and in build_etl a failed connection or a     *)
(* missing database table does not stop the run: the table is reconciled   *)
(* from the spreadsheet rows alone, and a run with every spreadsheet       *)
(* present is never aborted and ends with all its files written.           *)
C14_DatabaseFailureNotFatal ==
    /\ error # "DatabaseError"
    /\ (entry \in {"star", "etl"} /\ AllSpreadsheetsPresent) =>
          /\ pc # "aborted"
          /\ PastMerge =>
                \A t \in Tables :
                    sqlTables[t].isNone =>
                        /\ Len(Reconciled(t).rows) = Len(excelFiles[t].rows)
                        /\ \A i \in 1..Len(Reconciled(t).rows) :
                               FromExcel(Reconciled(t).rows[i])
          /\ pc = "done" =>
                written = (IF entry = "star" THEN StarFiles ELSE EtlFiles)

(* C14 for build_star_schema alone.                                        *)
C14_DatabaseFailureNotFatalStar ==
    entry = "star" => C14_DatabaseFailureNotFatal

(* build_star_schema ran to its end from the spreadsheets alone, every     *)
(* connection attempt having failed.                                       *)
C14_WitnessStar ==
    /\ entry = "star" /\ pc = "done" /\ AllSpreadsheetsPresent
    /\ \A t \in Tables : sqlTables[t].isNone
    /\ Len(fact_sales.rows) = 1

(* Table t is absent from both origins.                                    *)
AbsentFromBoth(t) == excelFiles[t].isNone /\ sqlTables[t].isNone

(* C15: a call of the reconciler returns None exactly when both origins    *)
(* are absent (it may raise when the spreadsheet lacks OrderID); a run in  *)
(* which a table is absent from both origins writes no file and ends with  *)
(* a missing-dependency error, and a run in which every table has at least *)
(* one origin and the required columns is not aborted.                     *)
C15_AbsentFailsFast ==
    /\ (pc = "returned" /\ ~result.raised) =>
          (result.df.isNone <=> AbsentFromBoth(args.table))
    /\ (entry \in {"star", "etl"} /\ \E t \in Tables : AbsentFromBoth(t)) =>
          /\ written = << >> /\ pc # "done"
          /\ pc = "aborted" => error \in {"MissingDependency", "KeyError"}
    /\ (entry \in {"star", "etl"}
           /\ \A t \in Tables : ~AbsentFromBoth(t)
           /\ \A u \in OrderTables : ~LacksOrderId(u)) => pc # "aborted"

(* The same without the kind of the error, for build_star_schema: a table  *)
(* absent from both origins stops the run before any file is written, and  *)
(* one origin is enough to proceed.                                        *)
C15_AbsentStopsStar ==
    /\ (pc = "returned" /\ ~result.raised) =>
          (result.df.isNone <=> AbsentFromBoth(args.table))
    /\ (entry = "star" /\ \E t \in Tables : AbsentFromBoth(t)) =>
          written = << >> /\ pc # "done"
    /\ (entry = "star"
           /\ \A t \in Tables : ~AbsentFromBoth(t)
           /\ \A u \in OrderTables : ~LacksOrderId(u)) => pc # "aborted"

(* The error of a run of build_star_schema stopped by an absent table.     *)
C15_AbsentRaisesTypeError ==
    (entry = "star" /\ pc = "aborted" /\ error # "KeyError") =>
        error = "TypeError" /\ \E t \in Tables : AbsentFromBoth(t)

(* C16: with dedupe=true no reconciled row has a missing key cell, and the *)
(* reconciled rows are the rows of the concatenation from which first the  *)
(* rows with a missing key cell and then the later duplicates on the whole *)
(* key were removed, for keys of one and of two columns.                   *)
C16_DropOrderIrrelevant ==
    DedupeReturned =>
        LET K == KeyColumns(args.table)
        IN /\ \A i \in 1..Len(result.df.rows) :
                  NonNullKey(result.df.rows[i], K)
           /\ result.df.rows =
                  DropDuplicates(DropNa(ShiftedPool(args.table), K), K)

(* Order Details were reconciled with dedupe=true from rows of which one   *)
(* has a missing ProductID and two others share the whole key.             *)
C16_Witness ==
    /\ DedupeReturned /\ args.table = "Order Details"
    /\ LET pool == ShiftedPool("Order Details")
           K == KeyColumns("Order Details")
       IN /\ \E i \in 1..Len(pool) :
                 IsNull(pool[i].ProductID) /\ ~IsNull(pool[i].OrderID)
          /\ \E i, j \in 1..Len(pool) :
                 /\ i < j /\ NonNullKey(pool[i], K)
                 /\ Key(pool[i], K) = Key(pool[j], K)
          /\ Len(result.df.rows) <= Len(pool) - 2

(* C18, as stated: in build_star_schema the fact table has as many rows as *)
(* the reconciled Orders table, the gap of the consistency check is never  *)
(* positive, and it is non-zero exactly when two reconciled Orders rows    *)
(* share an OrderID.                                                       *)
C18_AsStated ==
    (FactBuilt /\ entry = "star") =>
        /\ Len(fact_sales.rows) = Len(orders.rows)
        /\ Gap(orders.rows, fact_sales.rows) <= 0
        /\ Gap(orders.rows, fact_sales.rows) # 0
               <=> ~NoRepeat(orders.rows, "OrderID")

(* The reconciled Orders rows whose OrderID is present.                    *)
Identified(rws) == SelectSeq(rws, LAMBDA r : ~IsNull(r.OrderID))

(* C18, amended: in build_star_schema the fact table has as many rows as   *)
(* the reconciled Orders table, the gap is never positive, and it is       *)
(* non-zero exactly when a reconciled Orders row has a missing OrderID or  *)
(* two rows with a present OrderID share it.                               *)
C18_GapCountsRepeatedAndMissing ==
    (FactBuilt /\ entry = "star") =>
        /\ Len(fact_sales.rows) = Len(orders.rows)
        /\ Gap(orders.rows, fact_sales.rows) <= 0
        /\ Gap(orders.rows, fact_sales.rows) # 0
               <=> \/ \E i \in 1..Len(orders.rows) :
                          IsNull(orders.rows[i].OrderID)
                   \/ ~NoRepeat(Identified(orders.rows), "OrderID")

(* build_star_schema built the fact table of two orders, one of them with  *)
(* a missing OrderID, and the gap is -1 although no OrderID is repeated.   *)
C18_Witness ==
    /\ FactBuilt /\ entry = "star"
    /\ Len(orders.rows) = 2
    /\ NoRepeat(orders.rows, "OrderID")
    /\ \E i \in 1..2 : IsNull(orders.rows[i].OrderID)
    /\ Gap(orders.rows, fact_sales.rows) = -1

(* The files the run has written so far.                                   *)
WrittenFiles == {written[i] : i \in 1..Len(written)}

(* C19: a run of build_star_schema that is aborted, by the KeyError of a   *)
(* spreadsheet without OrderID or by the TypeError of a table absent from  *)
(* both origins, has written no file; files are written only once every    *)
(* builder has completed, in the order dim_time, dim_customer,             *)
(* dim_product, dim_employee, dim_shipper, dim_categories, fact_sales,     *)
(* each with the table built for it, and every file not yet written is     *)
(* the snapshot of the previous export.                                    *)
C19_AbortBeforeExport ==
    entry = "star" =>
        /\ pc = "aborted" =>
               written = << >> /\ error \in {"KeyError", "TypeError"}
        /\ Len(written) <= 7
        /\ written =
               SubSeq(<<"dim_time.csv", "dim_customer.csv",
                        "dim_product.csv", "dim_employee.csv",
                        "dim_shipper.csv", "dim_categories.csv",
                        "fact_sales.csv">>, 1, Len(written))
        /\ written # << >> =>
               /\ pc \in {"export", "done"}
               /\ \A f \in Files : ~Exported(f).isNone
        /\ pc = "done" => Len(written) = 7
        /\ \A f \in Files :
               processed[f] = IF f \in WrittenFiles THEN Exported(f)
                                                    ELSE PreviousFile

(* build_star_schema was aborted in a dimension builder, Customers being   *)
(* absent from both origins, after dim_time had been built, and the seven  *)
(* files are those of the previous export.                                 *)
C19_Witness ==
    /\ entry = "star" /\ pc = "aborted" /\ error = "TypeError"
    /\ AbsentFromBoth("Customers")
    /\ ~dim_time.isNone
    /\ \A f \in Files : processed[f] = PreviousFile

(* C17: whenever a run of the dashboard displays data, the data cached     *)
(* for load_data was loaded under the fingerprint that run computed, and   *)
(* the data displayed is, for each of the five files, that of the export   *)
(* run the file on disk came from.                                         *)
C17_CacheInvalidated ==
    (dash.running /\ dash.shown.kind = "data") =>
        /\ dash.cache.under = dash.signature
        /\ dash.shown.df = dash.seen

====
